---- MODULE Spec2Model ----
(***************************************************************************)
(* Model of openroute_directions.py: the interactive loop of main(), the   *)
(* credential acquisition, the geocoder and directions clients and the     *)
(* presenter.                                                              *)
(*                                                                         *)
(* Python values are represented as follows.                               *)
(*   - A str is a sequence of one-character strings.                       *)
(*   - None is the empty sequence where the other values are sequences     *)
(*     (a coordinate list, Some(v) == <<v>>), and the JSON record of kind  *)
(*     "None" for a parsed body.                                           *)
(*   - A parsed JSON body is a record [kind, wrap, inner, routes].         *)
(*   - A printed line is a record [text, args]: the fixed text of the      *)
(*     message and the numbers formatted into it.                          *)
(* KeyboardInterrupt is modelled where the process blocks on the terminal  *)
(* (getpass and the four input() prompts).                                 *)
(***************************************************************************)
EXTENDS Integers, Sequences, FiniteSets, TLC

VARIABLES
    pc,            \* position of main(): the next blocking call
    exit,          \* "running", "quit", "interrupt", "fatal" (sys.exit(1)), "crash"
    key,           \* main: key
    unit_system,   \* main: unit_system
    l_per_100km,   \* main: l_per_100km, None == <<>>, a rate r == <<r>>
    orig,          \* main: orig (stripped)
    dest,          \* main: dest (stripped)
    orig_coords,   \* main: orig_coords, None == <<>>
    dest_coords,   \* main: dest_coords, None == <<>>
    body,          \* fetch_route: body["coordinates"] of this iteration's request
    data,          \* main: data
    error,         \* main: error, None == <<>>, a dict d == <<d>>
    out,           \* lines printed by the last step
    geoCalls,      \* history: requests.get calls issued in this iteration
    dirCalls,      \* history: requests.post calls issued in this iteration
    geoFailed,     \* history: a geocode_address call of this iteration returned None
    dirFailed,     \* history: the fetch_route call of this iteration failed
    lateCalls,     \* history: network calls issued in this iteration after a failed one
    routePrinted,  \* history: print_route was called in this iteration
    fuelShown,     \* history: the last print_route printed the fuel line
    fuelEver,      \* history: some print_route of the session printed the fuel line
    response,      \* history: the HTTP outcome the last fetch_route call received
    interruptedAt  \* history: the blocking read KeyboardInterrupt was raised in

vars == <<pc, exit, key, unit_system, l_per_100km, orig, dest, orig_coords,
          dest_coords, body, data, error, out, geoCalls, dirCalls, geoFailed,
          dirFailed, lateCalls, routePrinted, fuelShown, fuelEver,
          response, interruptedAt>>

None == <<>>
Some(v) == <<v>>

Ln(t) == [text |-> t, args |-> <<>>]
LnA(t, a) == [text |-> t, args |-> a]

(***************************************************************************)
(* str helpers.                                                            *)
(***************************************************************************)
RECURSIVE lstrip(_)
lstrip(s) == IF s # <<>> /\ Head(s) = " " THEN lstrip(Tail(s)) ELSE s

RECURSIVE rstrip(_)
rstrip(s) == IF s # <<>> /\ s[Len(s)] = " " THEN rstrip(SubSeq(s, 1, Len(s) - 1)) ELSE s

strip(s) == rstrip(lstrip(s))

LowerChar(c) ==
    CASE c = "Q" -> "q"
      [] c = "U" -> "u"
      [] c = "I" -> "i"
      [] c = "T" -> "t"
      [] c = "A" -> "a"
      [] OTHER -> c

lower(s) == [i \in 1..Len(s) |-> LowerChar(s[i])]

Digits == {"0", "1", "2", "3", "4", "5", "6", "7", "8", "9"}

DigitVal(c) ==
    CASE c = "0" -> 0 [] c = "1" -> 1 [] c = "2" -> 2 [] c = "3" -> 3 [] c = "4" -> 4
      [] c = "5" -> 5 [] c = "6" -> 6 [] c = "7" -> 7 [] c = "8" -> 8 [] c = "9" -> 9

\* float(val) raises ValueError unless val is a number literal (here: digits only)
IsFloat(val) == val # <<>> /\ \A i \in 1..Len(val) : val[i] \in Digits

RECURSIVE ParseFloat(_)
ParseFloat(val) ==
    IF val = <<>> THEN 0
    ELSE 10 * ParseFloat(SubSeq(val, 1, Len(val) - 1)) + DigitVal(val[Len(val)])

(***************************************************************************)
(* JSON scalars: a number, a non-numeric string, or null / a missing key.  *)
(***************************************************************************)
Num(v) == [t |-> "num", v |-> v]
NonNum == [t |-> "str", v |-> 0]
Missing == [t |-> "none", v |-> 0]

(***************************************************************************)
(* Unit/format helpers.  A float result is carried as the integer number   *)
(* of hundredths that the ".2f" format of print_route shows (round half    *)
(* up); None when float(m) raises.                                         *)
(***************************************************************************)
meters_to_km(m) ==
    IF m.t = "num" THEN Some((m.v * 100 + 500) \div 1000) ELSE None

meters_to_miles(m) ==
    IF m.t = "num" THEN Some((m.v * 100000 + 804672) \div 1609344) ELSE None

\* "N/A" is None; otherwise <<h, m, sec>>, each printed with at least two digits
seconds_to_hms(s) ==
    IF s.t # "num" THEN None
    ELSE <<s.v \div 3600, (s.v % 3600) \div 60, s.v % 60>>

(***************************************************************************)
(* Geocoder client.                                                        *)
(* A response is [transport, status, kind, coords]:                        *)
(*   transport = TRUE : requests.get raised RequestException               *)
(*   kind "text"      : the body is not JSON (r.json() raises)             *)
(*   kind "empty"     : no "features", or an empty list                    *)
(*   kind "nogeom"    : the top feature has no geometry coordinates        *)
(*   kind "coords"    : the top feature's coordinates are the numbers      *)
(*                      coords                                             *)
(*   kind "strings"   : the top feature's coordinates are two strings      *)
(*                      (the range comparison raises TypeError)            *)
(* The result is [raised, ret, out]: whether an exception left the         *)
(* function, the returned value (None == <<>>) and the lines printed.      *)
(***************************************************************************)
InRangeWideLat(lon, lat) == -180 <= lon /\ lon <= 180 /\ -180 <= lat /\ lat <= 180

InRange(lon, lat) == -180 <= lon /\ lon <= 180 /\ -90 <= lat /\ lat <= 90

GeoResult(raised, ret, lines) == [raised |-> raised, ret |-> ret, out |-> lines]

geocode_address(resp) ==
    IF resp.transport
    THEN GeoResult(FALSE, None, <<Ln("Network error while geocoding")>>)
    ELSE IF resp.status # 200
    THEN GeoResult(FALSE, None, <<LnA("Error <status> geocoding", <<resp.status>>)>>)
    ELSE IF resp.kind = "text"
    THEN GeoResult(TRUE, None, <<>>)
    ELSE IF resp.kind = "empty"
    THEN GeoResult(FALSE, None, <<Ln("Error: No results found for address")>>)
    ELSE IF resp.kind = "nogeom" \/ Len(resp.coords) # 2
    THEN GeoResult(FALSE, None, <<Ln("Error: Invalid coordinates")>>)
    ELSE IF resp.kind = "strings"
    THEN GeoResult(TRUE, None, <<>>)
    ELSE IF ~InRange(resp.coords[1], resp.coords[2])
    THEN GeoResult(FALSE, None, <<Ln("Error: Out-of-range coordinates")>>)
    ELSE GeoResult(FALSE, <<resp.coords[1], resp.coords[2]>>, <<>>)

(***************************************************************************)
(* Directions client.                                                      *)
(* A parsed body is [kind, wrap, inner, routes]:                           *)
(*   kind  "dict", "list" or "None" (JSON null)                            *)
(*   wrap  "none", or the key of the fallback dict: "raw" / "error"        *)
(*   inner what the fallback dict wraps: the raw text or str(data)         *)
(*   routes the value of "routes" (<<>> when absent)                       *)
(* A response is [transport, status, text, json]: text = TRUE when the     *)
(* body is not JSON, json the parsed body otherwise.                       *)
(***************************************************************************)
Json(kind, routes) == [kind |-> kind, wrap |-> "none", inner |-> "", routes |-> routes]
Wrapped(k, inner) == [kind |-> "dict", wrap |-> k, inner |-> inner, routes |-> <<>>]
JsonNone == Json("None", <<>>)

\* r.json() guarded by except Exception
ParseBody(resp) == IF resp.text THEN Wrapped("raw", "text") ELSE resp.json

\* err = data if isinstance(data, dict) else {"error": str(data)}
WrapError(d) == IF d.kind = "dict" THEN d ELSE Wrapped("error", d.kind)

fetch_route_keeps_payload(resp) ==
    IF resp.transport THEN <<JsonNone, None>>
    ELSE IF resp.status = 200 THEN <<ParseBody(resp), None>>
    ELSE <<ParseBody(resp),
           Some([status |-> resp.status, message |-> WrapError(ParseBody(resp))])>>

\* the pair (data, error) returned
fetch_route(resp) ==
    IF resp.transport THEN <<JsonNone, None>>
    ELSE IF resp.status = 200 THEN <<ParseBody(resp), None>>
    ELSE <<JsonNone,
           Some([status |-> resp.status, message |-> WrapError(ParseBody(resp))])>>

\* body = {"coordinates": [orig_coords, dest_coords]}
RequestBody(o, d) == <<o, d>>

(***************************************************************************)
(* Presenter.  A route is [segments], a segment [duration, distance,       *)
(* steps], a step [distance].  The result is [raised, out, fuel]: whether  *)
(* an exception left the function (data has no .get), the lines printed    *)
(* and whether the "Estimated Fuel Used" line is among them.               *)
(***************************************************************************)
FuelConditionTruthy(rate, dist_val, unit) ==
    rate # None /\ rate # Some(0) /\ dist_val # None /\ unit = "metric"

\* l_per_100km is not None and dist_val is not None and unit_system == "metric"
FuelCondition(rate, dist_val, unit) ==
    rate # None /\ dist_val # None /\ unit = "metric"

StepLine(idx, step, unit) ==
    LET step_dist == IF unit = "imperial" THEN meters_to_miles(step.distance)
                     ELSE meters_to_km(step.distance)
        step_label == IF unit = "imperial" THEN "mi" ELSE "km"
    IN  IF step_dist = None THEN LnA("<idx>. <instruction>", <<idx>>)
        ELSE LnA("<idx>. <instruction> (<step_dist> " \o step_label \o ")",
                 <<idx, step_dist[1]>>)

PresentResult(raised, lines, fuel) == [raised |-> raised, out |-> lines, fuel |-> fuel]

print_route(d, unit, rate) ==
    IF d.kind # "dict" THEN PresentResult(TRUE, <<>>, FALSE)
    ELSE IF d.routes = <<>>
    THEN PresentResult(FALSE, <<Ln("Error: No routes found in the response.")>>, FALSE)
    ELSE IF d.routes[1].segments = <<>>
    THEN PresentResult(FALSE, <<Ln("Error: No segments found in the route.")>>, FALSE)
    ELSE
    LET segment == d.routes[1].segments[1]
        dur == IF segment.duration.t # "none" THEN seconds_to_hms(segment.duration)
               ELSE None
        dist_val == IF unit = "imperial" THEN meters_to_miles(segment.distance)
                    ELSE meters_to_km(segment.distance)
        dist_label == IF unit = "imperial" THEN "miles" ELSE "km"
        fuel == FuelCondition(rate, dist_val, unit)
        steps == segment.steps
    IN  PresentResult(FALSE,
            <<Ln("API Status: Successful route call."),
              Ln("Directions from <orig> to <dest>"),
              IF dur = None THEN Ln("Trip Duration: N/A")
              ELSE LnA("Trip Duration: <h>:<m>:<sec>", dur),
              IF dist_val = None THEN Ln("Distance: N/A")
              ELSE LnA("Distance: <dist_val> " \o dist_label, dist_val)>>
            \o (IF fuel
                THEN <<LnA("Estimated Fuel Used: <fuel_used_l> L (at <l_per_100km> L/100km)",
                           <<(dist_val[1] * rate[1] + 50) \div 100, rate[1]>>)>>
                ELSE <<>>)
            \o (IF steps # <<>>
                THEN [i \in 1..Len(steps) |-> StepLine(i, steps[i], unit)]
                ELSE <<Ln("No step-by-step directions available.")>>),
            fuel)

(***************************************************************************)
(* main(): the dispatch on a structured error.                             *)
(***************************************************************************)
ErrorLineNo429(status, message) ==
    IF status = 401
    THEN Ln("Error 401: Unauthorized. Check your API key (ORS_API_KEY).")
    ELSE IF status = 403
    THEN Ln("Error 403: Forbidden. Your API key may not have access to this endpoint.")
    ELSE IF status = 400
    THEN Ln("Error 400: Bad request. Check coordinates or request body.")
    ELSE [text |-> "Error <status>: <message>", args |-> <<status>>]

ErrorLine(status, message) ==
    IF status = 401
    THEN Ln("Error 401: Unauthorized. Check your API key (ORS_API_KEY).")
    ELSE IF status = 403
    THEN Ln("Error 403: Forbidden. Your API key may not have access to this endpoint.")
    ELSE IF status = 429
    THEN Ln("Error 429: Rate limit exceeded. Please wait and try again later.")
    ELSE IF status = 400
    THEN Ln("Error 400: Bad request. Check coordinates or request body.")
    ELSE [text |-> "Error <status>: <message>", args |-> <<status>>]

\* orig.lower() in ("quit", "q")
QuitWords == {<<"q", "u", "i", "t">>, <<"q">>}

IsQuitCaseSensitive(s) == s \in QuitWords

IsQuit(s) == lower(s) \in QuitWords

\* not orig_coords or not dest_coords
GeocodeMissingBoth(o, d) == o = <<>> /\ d = <<>>

GeocodeMissing(o, d) == o = <<>> \/ d = <<>>

(***************************************************************************)
(* The inputs: the environment, the lines typed and the HTTP outcomes.     *)
(***************************************************************************)
EnvValues == {None, Some(<<>>), Some(<<" ", " ">>), Some(<<"k">>), Some(<<" ", "k">>)}

KeyEntries == {<<>>, <<" ">>, <<"k">>, <<"k", " ">>}

UnitInputs == {<<>>, <<"1">>, <<"2">>, <<" ", "2">>, <<"x">>}

FuelInputs == {<<>>, <<" ">>, <<"0">>, <<" ", "8">>, <<"a">>}

AddressInputs ==
    {<<"q">>, <<" ", "Q", " ">>, <<"q", "u", "i", "t">>, <<"Q", "u", "I", "T", " ">>,
     <<" ", "q", "a">>}

\* coordinates of the top feature: [lon, lat], or a list of another length
CoordinateLists ==
    {<<>>, <<10>>, <<10, 20, 30>>,
     <<-180, -90>>, <<180, 90>>,
     <<200, 45>>, <<-181, 0>>, <<0, 91>>, <<0, -91>>}

GeoResp(transport, status, kind, coords) ==
    [transport |-> transport, status |-> status, kind |-> kind, coords |-> coords]

GeoResponses ==
    {GeoResp(TRUE, 0, "empty", <<>>), GeoResp(FALSE, 404, "text", <<>>),
     GeoResp(FALSE, 500, "empty", <<>>)}
    \cup {GeoResp(FALSE, 200, k, <<>>) : k \in {"text", "empty", "nogeom", "strings"}}
    \cup {GeoResp(FALSE, 200, "coords", c) : c \in CoordinateLists}

Step(m) == [distance |-> m]
Segment(dur, dist, steps) == [duration |-> dur, distance |-> dist, steps |-> steps]
Route(segments) == [segments |-> segments]

Segments ==
    {Segment(Num(1800), Num(10000), <<Step(Num(500)), Step(NonNum)>>),
     Segment(Num(90061), Num(0), <<>>),
     Segment(Missing, NonNum, <<Step(Num(1609))>>),
     Segment(NonNum, Missing, <<>>)}

\* bodies without routes, and bodies of a route response
PlainBodies == {JsonNone, Json("list", <<>>), Json("dict", <<>>)}

RouteBodies ==
    {Json("dict", <<Route(<<>>)>>)} \cup {Json("dict", <<Route(<<sg>>)>>) : sg \in Segments}

ErrorStatuses == {400, 401, 403, 429, 500}

DirResp(transport, status, text, json) ==
    [transport |-> transport, status |-> status, text |-> text, json |-> json]

NoResponse == DirResp(TRUE, 0, FALSE, JsonNone)

DirResponses ==
    {NoResponse}
    \cup {DirResp(FALSE, st, TRUE, JsonNone) : st \in ErrorStatuses \cup {200}}
    \cup {DirResp(FALSE, st, FALSE, j) : st \in ErrorStatuses, j \in PlainBodies}
    \cup {DirResp(FALSE, 200, FALSE, j) : j \in PlainBodies \cup RouteBodies}

(***************************************************************************)
(* The program.                                                            *)
(***************************************************************************)
Init ==
    /\ pc = "start"
    /\ exit = "running"
    /\ key = <<>>
    /\ unit_system = "metric"
    /\ l_per_100km = None
    /\ orig = <<>>
    /\ dest = <<>>
    /\ orig_coords = None
    /\ dest_coords = None
    /\ body = <<>>
    /\ data = JsonNone
    /\ error = None
    /\ out = <<>>
    /\ geoCalls = 0
    /\ dirCalls = 0
    /\ geoFailed = FALSE
    /\ dirFailed = FALSE
    /\ lateCalls = 0
    /\ routePrinted = FALSE
    /\ fuelShown = FALSE
    /\ fuelEver = FALSE
    /\ response = NoResponse
    /\ interruptedAt = "none"

prefs == <<unit_system, l_per_100km>>
addrs == <<orig, dest>>
coords == <<orig_coords, dest_coords>>
fetched == <<data, error, response>>
iterHist == <<body, geoCalls, dirCalls, geoFailed, dirFailed, lateCalls, routePrinted>>
fuelHist == <<fuelShown, fuelEver>>

Banner ==
    <<Ln("=== OpenRouteService Directions (JSON Parsing) ==="),
      Ln("Type 'quit' or 'q' at any prompt to exit.")>>

\* main() up to read_api_key's getpass: the environment variable decides
Start ==
    /\ pc = "start"
    /\ \E env \in EnvValues :
         IF env # None /\ env[1] # <<>>
         THEN /\ key' = strip(env[1])
              /\ out' = Banner
              /\ pc' = "read_unit"
         ELSE /\ key' = key
              /\ out' = Banner \o <<Ln("No ORS_API_KEY in environment.")>>
              /\ pc' = "getpass"
    /\ UNCHANGED <<exit, prefs, addrs, coords, fetched, iterHist, fuelHist, interruptedAt>>

\* read_api_key: the masked prompt
GetPass ==
    /\ pc = "getpass"
    /\ \E entry \in KeyEntries :
         /\ key' = strip(entry)
         /\ IF strip(entry) = <<>>
            THEN /\ out' = <<Ln("Error: API key is required.")>>
                 /\ pc' = "done"
                 /\ exit' = "fatal"
            ELSE /\ out' = <<>>
                 /\ pc' = "read_unit"
                 /\ exit' = exit
    /\ UNCHANGED <<prefs, addrs, coords, fetched, iterHist, fuelHist, interruptedAt>>

ReadUnit ==
    /\ pc = "read_unit"
    /\ \E unit_choice \in UnitInputs :
         /\ unit_system' = IF strip(unit_choice) = <<"2">> THEN "imperial" ELSE "metric"
         /\ pc' = IF unit_system' = "metric" THEN "read_fuel" ELSE "prompt_origin"
    /\ l_per_100km' = None
    /\ out' = <<>>
    /\ UNCHANGED <<exit, key, addrs, coords, fetched, iterHist, fuelHist, interruptedAt>>

\* ask_float: one pass of its loop per line read
ReadFuel ==
    /\ pc = "read_fuel"
    /\ \E line \in FuelInputs :
         LET val == strip(line) IN
         IF val = <<>>
         THEN /\ l_per_100km' = None
              /\ out' = <<>>
              /\ pc' = "prompt_origin"
         ELSE IF IsFloat(val)
         THEN /\ l_per_100km' = Some(ParseFloat(val))
              /\ out' = <<>>
              /\ pc' = "prompt_origin"
         ELSE /\ l_per_100km' = l_per_100km
              /\ out' = <<Ln("Please enter a number (e.g., 8.5).")>>
              /\ pc' = "read_fuel"
    /\ UNCHANGED <<exit, key, unit_system, addrs, coords, fetched, iterHist, fuelHist,
                   interruptedAt>>

Bye == <<Ln("Bye!")>>

ReadOrigin ==
    /\ pc = "prompt_origin"
    /\ \E line \in AddressInputs :
         /\ orig' = strip(line)
         /\ IF IsQuit(orig')
            THEN /\ pc' = "done"
                 /\ exit' = "quit"
                 /\ out' = Bye
            ELSE /\ pc' = "prompt_dest"
                 /\ exit' = exit
                 /\ out' = <<>>
    /\ geoCalls' = 0
    /\ dirCalls' = 0
    /\ geoFailed' = FALSE
    /\ dirFailed' = FALSE
    /\ lateCalls' = 0
    /\ routePrinted' = FALSE
    /\ body' = <<>>
    /\ UNCHANGED <<key, prefs, dest, coords, fetched, fuelHist, interruptedAt>>

ReadDest ==
    /\ pc = "prompt_dest"
    /\ \E line \in AddressInputs :
         /\ dest' = strip(line)
         /\ IF IsQuit(dest')
            THEN /\ pc' = "done"
                 /\ exit' = "quit"
                 /\ out' = Bye
            ELSE /\ pc' = "geocode_orig"
                 /\ exit' = exit
                 /\ out' = <<>>
    /\ UNCHANGED <<key, prefs, orig, coords, fetched, iterHist, fuelHist, interruptedAt>>

\* orig_coords = geocode_address(orig, key)
GeocodeOrigin ==
    /\ pc = "geocode_orig"
    /\ \E resp \in GeoResponses :
         LET r == geocode_address(resp) IN
         /\ out' = r.out
         /\ IF r.raised
            THEN /\ pc' = "done"
                 /\ exit' = "crash"
                 /\ orig_coords' = orig_coords
                 /\ geoFailed' = geoFailed
            ELSE /\ pc' = "geocode_dest"
                 /\ exit' = exit
                 /\ orig_coords' = r.ret
                 /\ geoFailed' = (r.ret = None)
    /\ geoCalls' = geoCalls + 1
    /\ UNCHANGED <<key, prefs, addrs, dest_coords, fetched, body, dirCalls, dirFailed,
                   lateCalls, routePrinted, fuelHist, interruptedAt>>

Unable == Ln("Unable to geocode one or both addresses. Please try again.")

\* dest_coords = geocode_address(dest, key), and the test of both results
GeocodeDest ==
    /\ pc = "geocode_dest"
    /\ \E resp \in GeoResponses :
         LET r == geocode_address(resp) IN
         IF r.raised
         THEN /\ pc' = "done"
              /\ exit' = "crash"
              /\ out' = r.out
              /\ dest_coords' = dest_coords
              /\ geoFailed' = geoFailed
         ELSE /\ exit' = exit
              /\ dest_coords' = r.ret
              /\ geoFailed' = (geoFailed \/ r.ret = None)
              /\ IF GeocodeMissing(orig_coords, r.ret)
                 THEN /\ out' = r.out \o <<Unable>>
                      /\ pc' = "prompt_origin"
                 ELSE /\ out' = r.out
                      /\ pc' = "fetch"
    /\ geoCalls' = geoCalls + 1
    /\ lateCalls' = lateCalls + (IF geoFailed THEN 1 ELSE 0)
    /\ UNCHANGED <<key, prefs, addrs, orig_coords, fetched, body, dirCalls, dirFailed,
                   routePrinted, fuelHist, interruptedAt>>

\* data, error = fetch_route(orig_coords, dest_coords, key)
FetchRoute ==
    /\ pc = "fetch"
    /\ \E resp \in DirResponses :
         /\ response' = resp
         /\ data' = fetch_route(resp)[1]
         /\ error' = fetch_route(resp)[2]
         /\ dirFailed' = (resp.transport \/ resp.status # 200)
         /\ out' = IF resp.transport THEN <<Ln("Network error calling directions API")>>
                   ELSE <<>>
    /\ body' = RequestBody(orig_coords, dest_coords)
    /\ dirCalls' = dirCalls + 1
    /\ lateCalls' = lateCalls + (IF geoFailed \/ dirFailed THEN 1 ELSE 0)
    /\ pc' = "handle"
    /\ UNCHANGED <<exit, key, prefs, addrs, coords, geoCalls, geoFailed, routePrinted,
                   fuelHist, interruptedAt>>

\* main(): "if error: ... continue", else print_route
HandleResult ==
    /\ pc = "handle"
    /\ IF error # None
       THEN /\ out' = <<ErrorLine(error[1].status, error[1].message)>>
            /\ pc' = "prompt_origin"
            /\ UNCHANGED <<exit, routePrinted, fuelHist>>
       ELSE LET p == print_route(data, unit_system, l_per_100km) IN
            /\ routePrinted' = TRUE
            /\ out' = p.out
            /\ fuelShown' = p.fuel
            /\ fuelEver' = (fuelEver \/ p.fuel)
            /\ IF p.raised
               THEN pc' = "done" /\ exit' = "crash"
               ELSE pc' = "prompt_origin" /\ exit' = exit
    /\ UNCHANGED <<key, prefs, addrs, coords, fetched, body, geoCalls, dirCalls,
                   geoFailed, dirFailed, lateCalls, interruptedAt>>

BlockingReads == {"getpass", "read_unit", "read_fuel", "prompt_origin", "prompt_dest"}

InterruptedSilently == <<>>

\* except KeyboardInterrupt: print("\nInterrupted. Bye!")
Interrupted == <<Ln("Interrupted. Bye!")>>

Interrupt ==
    /\ pc \in BlockingReads
    /\ interruptedAt' = pc
    /\ pc' = "done"
    /\ exit' = "interrupt"
    /\ out' = Interrupted
    /\ UNCHANGED <<key, prefs, addrs, coords, fetched, iterHist, fuelHist>>

Next ==
    \/ Start
    \/ GetPass
    \/ ReadUnit
    \/ ReadFuel
    \/ ReadOrigin
    \/ ReadDest
    \/ GeocodeOrigin
    \/ GeocodeDest
    \/ FetchRoute
    \/ HandleResult
    \/ Interrupt

Spec == Init /\ [][Next]_vars

(***************************************************************************)
(* Properties.                                                             *)
(***************************************************************************)

\* C1: whatever fetch_route returned (a payload, a structured error, or
\* (None, None) after a transport failure), the iteration does not end the
\* process with an unhandled exception.
C1_NoUnhandledAfterFetch == dirCalls = 1 => exit # "crash"

\* C2: whenever the trimmed, lower-cased text entered at the origin or at the
\* destination prompt is "quit" or "q", the loop has terminated by quit, the
\* farewell is what was printed, and the iteration issued no geocoding and no
\* directions call.
C2_QuitTerminates ==
    \A s \in {orig, dest} :
        lower(s) \in {<<"q">>, <<"q", "u", "i", "t">>} =>
            /\ pc = "done"
            /\ exit = "quit"
            /\ out = <<Ln("Bye!")>>
            /\ geoCalls = 0
            /\ dirCalls = 0

\* quit typed at the destination prompt, in another case, after an origin was entered
C2_Witness ==
    /\ exit = "quit"
    /\ orig = <<"q", "a">>
    /\ dest = <<"Q", "u", "I", "T">>

\* C3: what fetch_route returned for the response it received: never both a
\* payload and an error; status 200 gives (the parsed-or-wrapped body, None);
\* any other status gives (None, error) with exactly that status and the
\* parsed-or-wrapped body; a transport failure gives (None, None).
C3_PayloadXorError ==
    dirCalls = 1 =>
        /\ ~(data # JsonNone /\ error # None)
        /\ (response.transport => data = JsonNone /\ error = None)
        /\ (~response.transport /\ response.status = 200 =>
                /\ error = None
                /\ data = (IF response.text THEN Wrapped("raw", "text") ELSE response.json))
        /\ (~response.transport /\ response.status # 200 =>
                /\ data = JsonNone
                /\ error # None
                /\ error[1].status = response.status
                /\ error[1].message =
                       (IF response.text THEN Wrapped("raw", "text")
                        ELSE IF response.json.kind = "dict" THEN response.json
                        ELSE Wrapped("error", response.json.kind)))

\* a 401 response whose body is a JSON list, just returned as a structured error
C3_Witness ==
    /\ pc = "handle"
    /\ response.status = 401
    /\ response.json.kind = "list"
    /\ error # None
    /\ data = JsonNone

\* C4: once read_api_key has returned, the key main() holds is not empty.
C4_KeyNonEmpty ==
    (pc \notin {"start", "getpass"} /\ exit # "fatal" /\ interruptedAt # "getpass")
        => key # <<>>

\* C5: whenever a geocode_address call of the iteration returned None, the
\* iteration either still has the destination to geocode or has printed the
\* combined diagnostic and is back at the origin prompt, the process still
\* running, without a directions call.
C5_AbsenceRestarts ==
    geoFailed =>
        \/ pc = "geocode_dest"
        \/ /\ pc = "prompt_origin"
           /\ exit = "running"
           /\ out # <<>>
           /\ out[Len(out)] = Ln("Unable to geocode one or both addresses. Please try again.")
           /\ dirCalls = 0

\* C6: when fetch_route returned a structured error, print_route is not called
\* and the process neither quits nor crashes; back at the origin prompt the
\* one line printed is the status-specific message for 400, 401, 403 and 429
\* and the generic "Error <status>: <message>" line for any other status.
C6_ErrorDispatch ==
    (dirCalls = 1 /\ error # None) =>
        /\ ~routePrinted
        /\ pc \in {"handle", "prompt_origin"} \/ (pc = "done" /\ exit = "interrupt")
        /\ pc = "prompt_origin" =>
             /\ exit = "running"
             /\ Len(out) = 1
             /\ out[1].text =
                  (CASE error[1].status = 400 ->
                          "Error 400: Bad request. Check coordinates or request body."
                     [] error[1].status = 401 ->
                          "Error 401: Unauthorized. Check your API key (ORS_API_KEY)."
                     [] error[1].status = 403 ->
                          "Error 403: Forbidden. Your API key may not have access to this endpoint."
                     [] error[1].status = 429 ->
                          "Error 429: Rate limit exceeded. Please wait and try again later."
                     [] OTHER -> "Error <status>: <message>")
             /\ (error[1].status \notin {400, 401, 403, 429} =>
                     out[1].args = <<error[1].status>>)

\* a 401 answered with the unauthorized message, the loop back at the origin prompt
C6_Witness ==
    /\ pc = "prompt_origin"
    /\ exit = "running"
    /\ dirCalls = 1
    /\ error # None
    /\ error[1].status = 401
    /\ out = <<Ln("Error 401: Unauthorized. Check your API key (ORS_API_KEY).")>>

FuelLineIn(lines) ==
    \E i \in 1..Len(lines) :
        lines[i].text = "Estimated Fuel Used: <fuel_used_l> L (at <l_per_100km> L/100km)"

\* C7: after print_route ran, its output holds the fuel line if and only if
\* a fuel rate was supplied, the response has a first segment whose distance is
\* a number, and the unit system is metric; and in a session whose unit system
\* is imperial no rate is held and no print_route has ever printed the fuel
\* line; print_route itself, given a rate with imperial units, prints none.
C7_FuelLine ==
    /\ (routePrinted /\ pc = "prompt_origin") =>
         (FuelLineIn(out) <=>
            /\ l_per_100km # None
            /\ unit_system = "metric"
            /\ data.kind = "dict"
            /\ data.routes # <<>>
            /\ data.routes[1].segments # <<>>
            /\ data.routes[1].segments[1].distance.t = "num")
    /\ (routePrinted /\ pc = "prompt_origin") => (fuelShown <=> FuelLineIn(out))
    /\ (unit_system = "imperial" => ~fuelEver /\ l_per_100km = None)
    /\ \A d \in RouteBodies, unit \in {"metric", "imperial"}, rate \in {None, Some(0), Some(8)} :
         FuelLineIn(print_route(d, unit, rate).out) <=>
            /\ rate # None
            /\ unit = "metric"
            /\ d.routes[1].segments # <<>>
            /\ d.routes[1].segments[1].distance.t = "num"

\* 10000 m at 8 L/100km in metric: "10.00 km" and "0.80 L (at 8.0 L/100km)"
C7_Witness ==
    /\ pc = "prompt_origin"
    /\ routePrinted
    /\ unit_system = "metric"
    /\ \E i \in 1..Len(out) : out[i] = LnA("Distance: <dist_val> km", <<1000>>)
    /\ \E i \in 1..Len(out) :
         out[i] = LnA("Estimated Fuel Used: <fuel_used_l> L (at <l_per_100km> L/100km)",
                      <<80, 8>>)

ValidCoordinate(c) ==
    /\ Len(c) = 2
    /\ -180 <= c[1] /\ c[1] <= 180
    /\ -90 <= c[2] /\ c[2] <= 90

\* C8: geocode_address returns a coordinate only for a 200 response whose top
\* feature holds exactly two values within [-180, 180] and [-90, 90], and
\* returns exactly those; so every coordinate main() holds is valid, and the
\* body of a directions request is [orig_coords, dest_coords], both valid.
C8_ValidCoordinates ==
    /\ \A resp \in GeoResponses :
         geocode_address(resp).ret # None =>
             /\ ~resp.transport
             /\ resp.status = 200
             /\ resp.kind = "coords"
             /\ ValidCoordinate(resp.coords)
             /\ geocode_address(resp).ret = resp.coords
    /\ \A c \in {orig_coords, dest_coords} : c # None => ValidCoordinate(c)
    /\ dirCalls = 1 =>
         /\ body = <<orig_coords, dest_coords>>
         /\ ValidCoordinate(body[1])
         /\ ValidCoordinate(body[2])

\* a request from (-180, -90) to (180, 90)
C8_Witness ==
    /\ dirCalls = 1
    /\ orig_coords = <<-180, -90>>
    /\ body = <<<<-180, -90>>, <<180, 90>>>>

\* C9 as stated: within an iteration that no exception ended, no network
\* call is issued after a failed one.
C9_NoCallAfterFailure == exit # "crash" => lateCalls = 0

\* C9 as amended: an iteration issues at most two geocoding calls and at most
\* one directions call, the directions call only after both geocoding calls and
\* only if neither failed; the one network call that can follow a failed call
\* is the destination geocoding after a failed origin geocoding; nothing
\* follows a failed directions call.
C9_Amended ==
    /\ geoCalls <= 2
    /\ dirCalls <= 1
    /\ (dirCalls = 1 => geoCalls = 2 /\ ~geoFailed)
    /\ (~(dirCalls = 1) => ~dirFailed)
    /\ lateCalls <= 1
    /\ (lateCalls = 1 => geoCalls = 2 /\ dirCalls = 0 /\ orig_coords = None)

\* the origin geocoding failed, the destination geocoding was still issued and
\* succeeded, and the iteration ended without a directions call
C9_Witness ==
    /\ pc = "prompt_origin"
    /\ lateCalls = 1
    /\ orig_coords = None
    /\ dest_coords # None
    /\ dirCalls = 0

\* C10: a process ended by quit or by KeyboardInterrupt has printed its
\* farewell as the last thing, the interrupt was raised in one of the five
\* blocking reads, and an interrupt always ends as "interrupt", never as a crash.
C10_Farewell ==
    /\ (exit = "quit" => pc = "done" /\ out = <<Ln("Bye!")>>)
    /\ (exit = "interrupt" =>
            /\ pc = "done"
            /\ out = <<Ln("Interrupted. Bye!")>>
            /\ interruptedAt \in
                 {"getpass", "read_unit", "read_fuel", "prompt_origin", "prompt_dest"})
    /\ (interruptedAt # "none" => exit = "interrupt")

\* interrupted at the masked credential prompt
C10_Witness ==
    /\ exit = "interrupt"
    /\ interruptedAt = "getpass"
    /\ out = <<Ln("Interrupted. Bye!")>>

====
